---- MODULE Spec2Model ----
(***************************************************************************)
(* Model of src/main.py: the concurrent price acquisition                  *)
(* (fetch_all_closes), the drop-signal report of main, and the backtest of *)
(* one ticker (analyze_ticker).                                            *)
(*                                                                         *)
(* Dates are day numbers.  Closes, strikes' integer parts and implied      *)
(* volatilities (in hundredths) are integers; the floating-point           *)
(* arithmetic of pct_change is modelled bit by bit (see Fl53 below).       *)
(***************************************************************************)
EXTENDS Integers, Sequences, FiniteSets, TLC

VARIABLES
    \* ---- fetch_all_closes / main ----
    symbols,      \* the ticker list handed to fetch_all_closes (main: tickers)
    response,     \* the provider's answer to get_price_history_every_day, per ticker
    futures,      \* future of each submitted ticker: "running", "finished", "yielded"
    series,       \* fetch_all_closes: the list `series`, in collection order
    log,          \* what has been printed
    closes_df,    \* the table returned by fetch_all_closes (NoTable before)
    available,    \* main: the list `available`
    li,           \* main: number of elements of `available` the loop has taken
    results,      \* main: the list `results`
    results_df,   \* main: the final table (index "ticker"), NoTable before
    pc,           \* position of the main thread
    \* ---- analyze_ticker ----
    closes,       \* the argument `closes`: one column of the table
    s,            \* closes.dropna()
    drop_dates,   \* pct4[pct4 <= -0.10].index
    di,           \* number of drop dates the loop has taken
    trials, successes,
    last,         \* the locals of the latest iteration of the loop over drop_dates
    apc           \* position inside analyze_ticker

fvars == <<symbols, response, futures, series, log, closes_df, available, li,
           results, results_df, pc>>
avars == <<closes, s, drop_dates, di, trials, successes, last, apc>>
vars  == <<symbols, response, futures, series, log, closes_df, available, li,
           results, results_df, pc,
           closes, s, drop_dates, di, trials, successes, last, apc>>

-----------------------------------------------------------------------------
(* Bounds of the model *)

\* Days 1..LastDay are the dates the provider's candles carry.
LastDay == 6

\* pandas' missing value (NaN): the cell of a date a ticker has no close for.
NaN == -1

\* The tickers that can be requested.
Symbols == {"AAPL", "MSFT", "T"}

-----------------------------------------------------------------------------
(* Sequences *)

Range(q) == {q[i] : i \in 1..Len(q)}

\* Insert x into the ascending sequence q.
RECURSIVE InsertSorted(_, _)
InsertSorted(x, q) ==
    IF q = <<>> THEN <<x>>
    ELSE IF x <= Head(q) THEN <<x>> \o q
         ELSE <<Head(q)>> \o InsertSorted(x, Tail(q))

\* The elements of the set D of integers, ascending.
RECURSIVE SortSet(_)
SortSet(D) ==
    IF D = {} THEN <<>>
    ELSE LET x == CHOOSE y \in D : TRUE IN InsertSorted(x, SortSet(D \ {x}))

\* All sequences of distinct elements of S, of length 1..Cardinality(S).
RECURSIVE Perms(_)
Perms(S) ==
    IF S = {} THEN {<<>>}
    ELSE UNION {{<<x>> \o p : p \in Perms(S \ {x})} : x \in S}

DistinctLists(S) == UNION {Perms(T) : T \in (SUBSET S) \ {{}}}

-----------------------------------------------------------------------------
(* IEEE-754 double arithmetic of `s.pct_change(4) <= -0.10`                *)
(*                                                                         *)
(* pandas computes pct_change(4) as s / s.shift(4) - 1 on float64 values.  *)
(* Closes are integers here, so each close is an exact double; the         *)
(* quotient, the subtraction and the literal -0.10 are rounded as the      *)
(* hardware rounds them (to nearest, ties to even, 53 significant bits).   *)
(* A positive double is [e, m]: m is the sequence of its 53 significant    *)
(* bits, first bit 1, and its value is 0.m1 m2 ... m53 (binary) * 2^e.     *)

MantBits == 53

\* Scale P/Q by powers of two into [1/2, 1): P/Q * 2^e is the original value.
RECURSIVE Norm(_, _, _)
Norm(P, Q, e) ==
    IF P >= Q THEN Norm(P, 2 * Q, e + 1)
    ELSE IF 2 * P < Q THEN Norm(2 * P, Q, e - 1)
         ELSE [P |-> P, Q |-> Q, e |-> e]

\* 2^n modulo q, by repeated squaring.
RECURSIVE Pow2Mod(_, _)
Pow2Mod(n, q) ==
    IF n = 0 THEN 1 % q
    ELSE IF n % 2 = 0
         THEN LET h == Pow2Mod(n \div 2, q) IN (h * h) % q
         ELSE (2 * Pow2Mod(n - 1, q)) % q

\* The remainder of the long division r/q after n bits: r * 2^n modulo q
\* (zero iff r/q has no further bits), for 0 <= r < q.
DivRem(r, q, n) == (r * Pow2Mod(n, q)) % q

\* The n-th bit after the binary point of r/q, for 0 <= r < q.
DivBit(r, q, n) == IF 2 * DivRem(r, q, n - 1) >= q THEN 1 ELSE 0

\* bits + 1 in the last place, for a bit sequence that is not all ones.
Increment(bits) ==
    LET k == CHOOSE i \in 1..Len(bits) :
                 bits[i] = 0 /\ \A j \in (i + 1)..Len(bits) : bits[j] = 1
    IN  [i \in 1..Len(bits) |-> IF i < k THEN bits[i] ELSE IF i = k THEN 1 ELSE 0]

\* The double nearest to p/q, for integers p, q > 0 (float64 division).
Fl53(p, q) ==
    LET nm      == Norm(p, q, 0)
        m       == [n \in 1..MantBits |-> DivBit(nm.P, nm.Q, n)]
        guard   == DivBit(nm.P, nm.Q, MantBits + 1)
        sticky  == DivRem(nm.P, nm.Q, MantBits + 1) # 0
        roundUp == guard = 1 /\ (sticky \/ m[MantBits] = 1)
    IN  IF ~roundUp THEN [e |-> nm.e, m |-> m]
        ELSE IF \A i \in 1..MantBits : m[i] = 1  \* 0.111...1 rounds up to 1.0
             THEN [e |-> nm.e + 1, m |-> [i \in 1..MantBits |-> IF i = 1 THEN 1 ELSE 0]]
             ELSE [e |-> nm.e, m |-> Increment(m)]

\* 1 - 0.bits (binary), for a bit sequence that is not all zeros: the two's
\* complement, which has as many bits.
OneMinus(bits) ==
    LET k == CHOOSE i \in 1..Len(bits) :
                 bits[i] = 1 /\ \A j \in (i + 1)..Len(bits) : bits[j] = 0
    IN  [i \in 1..Len(bits) |->
            IF i < k THEN 1 - bits[i] ELSE IF i = k THEN 1 ELSE 0]

\* 0.a <= 0.b for equally long bit sequences.
BitsLeq(a, b) ==
    \/ \A i \in 1..Len(a) : a[i] = b[i]
    \/ \E i \in 1..Len(a) : a[i] < b[i] /\ \A j \in 1..(i - 1) : a[j] = b[j]

\* x - 1.0 <= -t in float64, for doubles x > 0 and 0 < t < 1/2.
\*   x >= 1:        x - 1.0 >= 0 > -t.
\*   x <  1/2:      x - 1.0 rounds to a value <= -1/2 < -t.
\*   1/2 <= x < 1:  x - 1.0 is exact (operands within a factor of two), and
\*                  x - 1 <= -t  iff  x <= 1 - t, compared on the exact bits.
MinusOneLeqNeg(x, t) ==
    IF x.e >= 1 THEN FALSE
    ELSE IF x.e <= -1 THEN TRUE
    ELSE LET w  == MantBits - t.e
             xa == [i \in 1..w |-> IF i <= MantBits THEN x.m[i] ELSE 0]
             ta == [i \in 1..w |-> IF i <= 0 - t.e THEN 0 ELSE t.m[i + t.e]]
         IN  BitsLeq(xa, OneMinus(ta))

\* The literal 0.10 as a double.
Threshold == Fl53(1, 10)

\* (p / q - 1 <= -0.10) as float64 evaluates it: one cell of `pct4 <= -0.10`.
PctLe(p, q) == MinusOneLeqNeg(Fl53(p, q), Threshold)

\* The closes that occur in the model's price histories.
PriceSet == {85, 88, 89, 90, 95, 100}

\* `pct4 <= -0.10` for every pair of closes (evaluated once).
PctLeTable == [p \in PriceSet, q \in PriceSet |-> PctLe(p, q)]

-----------------------------------------------------------------------------
(* Series and tables (pandas) *)

\* Timestamps are hours; a candle of day d is stamped at CandleHour of day d.
HoursPerDay == 24
CandleHour == 5
Ts(d) == d * HoursPerDay + CandleHour

\* Timestamp.date(): the day a timestamp falls on.
DateOf(ts) == ts \div HoursPerDay

\* A Series is [name, obs]: obs is its sequence of [ts, close] rows.
Obs(ts, c) == [ts |-> ts, close |-> c]

NoSeries == [name |-> "", obs |-> <<>>]

DatesOf(ser) == {ser.obs[i].ts : i \in 1..Len(ser.obs)}

\* The value of ser at date d, NaN where it has none (outer-join alignment).
At(ser, d) ==
    IF d \in DatesOf(ser)
    THEN (CHOOSE o \in Range(ser.obs) : o.ts = d).close
    ELSE NaN

\* Series.dropna(): the rows whose close is present, in order.
IsPresent(o) == o.close # NaN
DropNa(ser) == [name |-> ser.name, obs |-> SelectSeq(ser.obs, IsPresent)]

\* The row index of pd.concat(list, axis=1, join="outer").sort_index().
SortIndex(D) == SortSet(D)

\* pd.concat(list, axis=1, join="outer").sort_index(): one column per series,
\* in list order; rows are the union of the dates, ascending; data[r][c] is the
\* close of column c on index[r], NaN where that series has no such date.
Concat(list) ==
    LET index == SortIndex(UNION {DatesOf(list[c]) : c \in 1..Len(list)})
    IN  [columns |-> [c \in 1..Len(list) |-> list[c].name],
         index   |-> index,
         data    |-> [r \in 1..Len(index) |->
                        [c \in 1..Len(list) |-> At(list[c], index[r])]]]

NoTable == [columns |-> <<>>, index |-> <<>>, data |-> <<>>]

\* df[sym]: the column named sym as a Series over the table's index.
Column(df, sym) ==
    LET c == CHOOSE k \in 1..Len(df.columns) : df.columns[k] = sym
    IN  [name |-> sym,
         obs  |-> [r \in 1..Len(df.index) |-> Obs(df.index[r], df.data[r][c])]]

-----------------------------------------------------------------------------
(* The drawdown detector: s.pct_change(4) and pct4 <= -0.10 *)

Window == 4

\* The mask `pct4 <= -0.10` over the positions 1..Len(obs) of a series without
\* missing values: pct4 is NaN at the first Window positions (NaN <= x is
\* False), and obs[i]/obs[i - Window] - 1 afterwards.
DropMask(obs) ==
    [i \in 1..Len(obs) |->
        IF i <= Window THEN FALSE
        ELSE PctLeTable[obs[i].close, obs[i - Window].close]]

\* pct4[pct4 <= -0.10].index: the dates of the flagged positions, in order.
DropDates(obs) ==
    LET mask == DropMask(obs)
        Pos  == {i \in 1..Len(obs) : mask[i]}
        pos  == SortSet(Pos)
    IN  [k \in 1..Len(pos) |-> obs[pos[k]].ts]

\* int((pct4 <= -0.10).sum())
DropCount(obs) == Cardinality({i \in 1..Len(obs) : DropMask(obs)[i]})

-----------------------------------------------------------------------------
(* The provider's answers to get_price_history_every_day *)

Candles(days, cl) ==
    [i \in 1..Len(days) |-> [datetime |-> Ts(days[i]), close |-> cl[i]]]

Ascending(a, b) == [i \in 1..(b - a + 1) |-> a + i - 1]
Descending(b, a) == [i \in 1..(b - a + 1) |-> b - i + 1]

HttpOk == 200
HttpServerError == 500

Responses ==
    { [status |-> HttpServerError, candles |-> <<>>],
      \* no candles at all
      [status |-> HttpOk, candles |-> <<>>],
      \* five days, a 12% fall over four observations
      [status |-> HttpOk,
       candles |-> Candles(Ascending(1, 5), <<100, 95, 90, 85, 88>>)],
      \* five days, the close of day 2 null: four observations
      [status |-> HttpOk,
       candles |-> Candles(Ascending(1, 5), <<100, NaN, 95, 90, 85>>)],
      \* days 1..LastDay, an 11% fall on the last day
      [status |-> HttpOk,
       candles |-> Candles(Ascending(1, LastDay),
                     [i \in 1..LastDay |-> IF i = LastDay THEN 89 ELSE 100])],
      \* days LastDay..2, newest first, a fall of exactly 10% on the last day
      [status |-> HttpOk,
       candles |-> Candles(Descending(LastDay, 2),
                     [i \in 1..(LastDay - 1) |-> IF i = 1 THEN 90 ELSE 100])] }

-----------------------------------------------------------------------------
(* fetch_all_closes *)

\* Variant of _one for sensitivity checks: an empty candle list yields an empty
\* series instead of raising.
OneEmptyOk(sym, resp) ==
    IF resp.status >= 400 THEN [exc |-> "HTTPError", value |-> NoSeries]
    ELSE [exc   |-> "",
          value |-> [name |-> sym,
                     obs  |-> [i \in 1..Len(resp.candles) |->
                                 Obs(resp.candles[i].datetime,
                                     resp.candles[i].close)]]]

\* _one(sym): the close series of the answer, or the exception it raises
\* (raise_for_status on an HTTP error; df["datetime"] on an empty candle list).
One(sym, resp) ==
    IF resp.status >= 400 THEN [exc |-> "HTTPError", value |-> NoSeries]
    ELSE IF resp.candles = <<>> THEN [exc |-> "KeyError", value |-> NoSeries]
    ELSE [exc   |-> "",
          value |-> [name |-> sym,
                     obs  |-> [i \in 1..Len(resp.candles) |->
                                 Obs(resp.candles[i].datetime,
                                     resp.candles[i].close)]]]

Msg(kind, syms, err, n) == [kind |-> kind, syms |-> syms, err |-> err, n |-> n]

\* A worker finishes _one(sym): its future becomes done.
RunOne(sym) ==
    /\ pc = "collect"
    /\ futures[sym] = "running"
    /\ futures' = [futures EXCEPT ![sym] = "finished"]
    /\ UNCHANGED <<symbols, response, series, log, closes_df, available, li,
                   results, results_df, pc>>
    /\ UNCHANGED avars

\* One iteration of `for fut in as_completed(futures)`: a finished future is
\* handed out; its series is appended, or its exception is printed.
Collect(sym) ==
    /\ pc = "collect"
    /\ futures[sym] = "finished"
    /\ futures' = [futures EXCEPT ![sym] = "yielded"]
    /\ LET r == One(sym, response[sym])
       IN  IF r.exc = ""
           THEN /\ series' = Append(series, r.value)
                /\ log' = log
           ELSE /\ series' = series
                /\ log' = Append(log, Msg("failed", {sym}, r.exc, 0))
    /\ UNCHANGED <<symbols, response, closes_df, available, li, results,
                   results_df, pc>>
    /\ UNCHANGED avars

\* The return statement, once every future has been handed out: pd.concat
\* raises ValueError ("No objects to concatenate") on an empty list.
ReturnConcat ==
    /\ pc = "collect"
    /\ \A sym \in DOMAIN futures : futures[sym] = "yielded"
    /\ IF series = <<>>
       THEN /\ pc' = "ValueError"
            /\ closes_df' = closes_df
       ELSE /\ pc' = "main"
            /\ closes_df' = Concat(series)
    /\ UNCHANGED <<symbols, response, futures, series, log, available, li,
                   results, results_df>>
    /\ UNCHANGED avars

-----------------------------------------------------------------------------
(* main *)

\* Variant for sensitivity checks: the length test against the window.
MinObservationsAsWindow == Window

MinObservations == 5

InColumns(df, sym) == \E k \in 1..Len(df.columns) : df.columns[k] = sym

\* Variant for sensitivity checks: available = list(closes_df.columns).
AvailableInColumnOrder(tickers, df) == df.columns

\* available = [t for t in tickers if t in closes_df.columns]
Available(tickers, df) ==
    LET Has(sym) == InColumns(df, sym) IN SelectSeq(tickers, Has)

\* Lines 187-191: `available`, and the message naming the missing tickers.
MainAvailable ==
    /\ pc = "main"
    /\ available' = Available(symbols, closes_df)
    /\ LET missing == Range(symbols) \ Range(available')
       IN  log' = IF missing # {}
                  THEN Append(log, Msg("no_price_data", missing, "", 0))
                  ELSE log
    /\ li' = 0
    /\ pc' = "loop"
    /\ UNCHANGED <<symbols, response, futures, series, closes_df, results,
                   results_df>>
    /\ UNCHANGED avars

\* One iteration of `for symbol in available` (lines 215-230).
MainLoopStep ==
    /\ pc = "loop"
    /\ li < Len(available)
    /\ LET symbol == available[li + 1]
           ser    == DropNa(Column(closes_df, symbol))
       IN  IF Len(ser.obs) < MinObservations
           THEN /\ log' = Append(log, Msg("skipping", {symbol}, "", Len(ser.obs)))
                /\ results' = results
           ELSE /\ log' = log
                /\ results' = Append(results,
                                [ticker |-> symbol,
                                 drop_signals |-> DropCount(ser.obs)])
    /\ li' = li + 1
    /\ UNCHANGED <<symbols, response, futures, series, closes_df, available,
                   results_df, pc>>
    /\ UNCHANGED avars

\* pd.DataFrame(results).set_index("ticker"): the rows of `results` in order,
\* indexed by ticker.
SetIndex(rows) ==
    [index        |-> [i \in 1..Len(rows) |-> rows[i].ticker],
     drop_signals |-> [i \in 1..Len(rows) |-> rows[i].drop_signals]]

\* Lines 233-238: the final table; set_index raises KeyError when `results` is
\* empty (the frame has no "ticker" column).
MainBuild ==
    /\ pc = "loop"
    /\ li = Len(available)
    /\ IF results = <<>>
       THEN /\ pc' = "KeyError"
            /\ results_df' = results_df
            /\ log' = log
       ELSE /\ pc' = "done"
            /\ results_df' = SetIndex(results)
            /\ log' = Append(log, Msg("saved", {}, "", Len(results)))
    /\ UNCHANGED <<symbols, response, futures, series, closes_df, available,
                   li, results>>
    /\ UNCHANGED avars

-----------------------------------------------------------------------------
(* The provider's answers to get_option_chain *)

\* opt.get("volatility") of a contract without the field.
NoneIV == -1

\* A strike key is <<integer part, fractional digits>>: "88.5" is <<88, <<5>>>>.
\* The provider writes a strike as a float with one fractional digit, and
\* strikes step by halves, so every key is exactly a double.
StrikeKeys == {<<88, <<0>>>>, <<90, <<0>>>>}

\* An expiration key is <<date, days to expiration>>: "2024-02-05:30".  The
\* provider counts the days from the first day of the model.
ExpirationDays == {31, 36, 41}
ExpKeys == {<<d, d - 1>> : d \in ExpirationDays}

\* The contract variants listed under one strike; only `volatility` is read.
\* Implied volatilities are in hundredths.
ContractLists ==
    { <<[volatility |-> NoneIV]>>,
      <<[volatility |-> 60], [volatility |-> 75]>>,
      <<[volatility |-> 75], [volatility |-> 55]>> }

\* The mappings of a JSON object keep the payload's order: a mapping is a
\* sequence of [key, value] entries with distinct keys.
Entry(k, v) == [key |-> k, value |-> v]

\* The strikes listed under one expiration: one or two.
StrikeMaps ==
    {<<Entry(k, v)>> : k \in StrikeKeys, v \in ContractLists}
    \cup {<<Entry(k1, v1), Entry(k2, v2)>> :
            <<k1, k2>> \in {kk \in StrikeKeys \X StrikeKeys : kk[1] # kk[2]},
            <<v1, v2>> \in ContractLists \X ContractLists}

\* A chain lists at most MaxListed strikes over all its expirations.
MaxListed == 2

\* The values of chain.get("putExpDateMap", {}): no expiration, one, or two.
PutMaps ==
    {<<>>}
    \cup {<<Entry(k, sm)>> :
            k \in ExpKeys, sm \in {m \in StrikeMaps : Len(m) <= MaxListed}}
    \cup {<<Entry(kk[1], mm[1]), Entry(kk[2], mm[2])>> :
            kk \in {x \in ExpKeys \X ExpKeys : x[1] # x[2]},
            mm \in {y \in StrikeMaps \X StrikeMaps :
                      Len(y[1]) + Len(y[2]) <= MaxListed}}

Keys(map) == [i \in 1..Len(map) |-> map[i].key]
HasKey(map, k) == \E i \in 1..Len(map) : map[i].key = k
Get(map, k) == (CHOOSE e \in Range(map) : e.key = k).value

-----------------------------------------------------------------------------
(* analyze_ticker *)

HorizonDays == 30
IVThreshold == 60

\* parse_key(k): the date in front of the ":".
ParseKey(k) == k[1]

\* float(k) for a strike key, in tenths.
FloatOfKey(k) == k[1] * 10 + (IF k[2] = <<>> THEN 0 ELSE k[2][1])

\* str(x) for a float x given in tenths: always one fractional digit here.
StrOfFloat(x) == <<x \div 10, <<x % 10>>>>

Abs(x) == IF x < 0 THEN 0 - x ELSE x

\* abs((parse_key(k) - exp_target).days)
ExpDistance(k, exp_target) == Abs(ParseKey(k) - exp_target)

\* abs(x - price_on_dt), in tenths
StrikeDistance(x, price_on_dt) == Abs(x - 10 * price_on_dt)

\* Variant for sensitivity checks: the last minimal element wins.
RECURSIVE MinScanLast(_, _, _)
MinScanLast(keyvals, i, best) ==
    IF i > Len(keyvals) THEN best
    ELSE MinScanLast(keyvals, i + 1,
                     IF keyvals[i] <= keyvals[best] THEN i ELSE best)

\* min(list, key=...): the scan of Python's min over the list of key values;
\* a later element replaces the best only when its key is strictly smaller.
RECURSIVE MinScan(_, _, _)
MinScan(keyvals, i, best) ==
    IF i > Len(keyvals) THEN best
    ELSE MinScan(keyvals, i + 1, IF keyvals[i] < keyvals[best] THEN i ELSE best)

MinIndex(keyvals) == MinScan(keyvals, 2, 1)

\* best_key = min(exp_keys, key=lambda k: abs((parse_key(k) - exp_target).days))
BestKey(put_map, exp_target) ==
    LET exp_keys == Keys(put_map)
    IN  exp_keys[MinIndex([i \in 1..Len(exp_keys) |->
                             ExpDistance(exp_keys[i], exp_target)])]

\* strike = min(strikes, key=lambda x: abs(x - price_on_dt))
BestStrike(strikes_map, price_on_dt) ==
    LET strikes == [i \in 1..Len(strikes_map) |-> FloatOfKey(strikes_map[i].key)]
    IN  strikes[MinIndex([i \in 1..Len(strikes) |->
                            StrikeDistance(strikes[i], price_on_dt)])]

\* Variant for sensitivity checks: iv is None or iv < 0.60.
IVRejectedStrict(iv) == iv = NoneIV \/ iv < IVThreshold

\* iv is None or iv <= 0.60
IVRejected(iv) == iv = NoneIV \/ iv <= IVThreshold

\* Variant for sensitivity checks: s[s.index.date > parse_key(best_key)].
FuturePricesStrictlyAfter(ser, best_key) ==
    LET After(o) == DateOf(o.ts) > ParseKey(best_key)
    IN  SelectSeq(ser.obs, After)

\* future_prices = s[s.index.date >= parse_key(best_key)]
FuturePrices(ser, best_key) ==
    LET OnOrAfter(o) == DateOf(o.ts) >= ParseKey(best_key)
    IN  SelectSeq(ser.obs, OnOrAfter)

\* price_later > strike (strike in tenths)
ClosedAbove(price_later, strike) == 10 * price_later > strike

\* Variant for sensitivity checks: the volatility test guards the trial count
\* only, and the outcome is evaluated for every matched contract.
TallyNoContinue(t, n, iv, future_prices, strike) ==
    LET t1 == IF IVRejected(iv) THEN t ELSE t + 1
    IN  IF future_prices = <<>> THEN <<t1, n>>
        ELSE IF ClosedAbove(future_prices[1].close, strike) THEN <<t1, n + 1>>
        ELSE <<t1, n>>

\* Lines 138-150, the counters after one matched contract: nothing is counted
\* when the implied volatility is rejected (`continue`); otherwise a trial, and
\* a success when a later close exists and is above the strike.
Tally(t, n, iv, future_prices, strike) ==
    IF IVRejected(iv) THEN <<t, n>>
    ELSE IF future_prices = <<>> THEN <<t + 1, n>>
    ELSE IF ClosedAbove(future_prices[1].close, strike) THEN <<t + 1, n + 1>>
    ELSE <<t + 1, n>>

NoLast ==
    [dt |-> 0, price_on_dt |-> 0, exp_target |-> 0, put_map |-> <<>>,
     best_key |-> <<0, 0>>, strike |-> 0, iv |-> NoneIV, price_later |-> 0,
     exit |-> "none"]

\* Lines 103-107: the counters, the series without missing values, the dates
\* of the drops.
AnalyzeStart ==
    /\ apc = "start"
    /\ s' = DropNa(closes)
    /\ drop_dates' = DropDates(s'.obs)
    /\ trials' = 0
    /\ successes' = 0
    /\ di' = 0
    /\ apc' = "loop"
    /\ UNCHANGED <<closes, last>>
    /\ UNCHANGED fvars

\* The body of `for dt in drop_dates` for the next date (lines 110-150), with
\* the chain the provider answers.  `exit` names the place the body ends at.
AnalyzeStep ==
    /\ apc = "loop"
    /\ di < Len(drop_dates)
    /\ LET dt          == drop_dates[di + 1]
           price_on_dt == At(s, dt)
           exp_target  == DateOf(dt + HorizonDays * HoursPerDay)
       IN  \E put_map \in PutMaps :
             LET l0 == [last EXCEPT !.dt = dt, !.price_on_dt = price_on_dt,
                                    !.exp_target = exp_target,
                                    !.put_map = put_map]
             IN
             IF put_map = <<>>
             THEN /\ last' = [l0 EXCEPT !.exit = "no_chain"]
                  /\ apc' = "next"
                  /\ UNCHANGED <<trials, successes>>
             ELSE
             LET best_key    == BestKey(put_map, exp_target)
                 strikes_map == Get(put_map, best_key)
                 strike      == BestStrike(strikes_map, price_on_dt)
                 l1 == [l0 EXCEPT !.best_key = best_key, !.strike = strike]
             IN
             IF ~HasKey(strikes_map, StrOfFloat(strike))
             THEN /\ last' = [l1 EXCEPT !.exit = "KeyError"]
                  /\ apc' = "KeyError"
                  /\ UNCHANGED <<trials, successes>>
             ELSE
             LET opt == Get(strikes_map, StrOfFloat(strike))[1]
                 iv  == opt.volatility
                 future_prices == FuturePrices(s, best_key)
                 tally == Tally(trials, successes, iv, future_prices, strike)
                 l2  == [l1 EXCEPT !.iv = iv]
             IN
             /\ trials' = tally[1]
             /\ successes' = tally[2]
             /\ apc' = "next"
             /\ last' = IF IVRejected(iv)
                        THEN [l2 EXCEPT !.exit = "low_iv"]
                        ELSE IF future_prices = <<>>
                        THEN [l2 EXCEPT !.exit = "no_future"]
                        ELSE [l2 EXCEPT !.price_later = future_prices[1].close,
                                        !.exit = "compared"]
    /\ UNCHANGED <<closes, s, drop_dates, di>>
    /\ UNCHANGED fvars

\* The `for` statement moves to the next date (or `continue` reaches it); the
\* locals of the finished iteration are dead and are forgotten.
AnalyzeNextDate ==
    /\ apc = "next"
    /\ di' = di + 1
    /\ last' = NoLast
    /\ apc' = "loop"
    /\ UNCHANGED <<closes, s, drop_dates, trials, successes>>
    /\ UNCHANGED fvars

\* return trials, successes
AnalyzeReturn ==
    /\ apc = "loop"
    /\ di = Len(drop_dates)
    /\ apc' = "returned"
    /\ UNCHANGED <<closes, s, drop_dates, di, trials, successes, last>>
    /\ UNCHANGED fvars

-----------------------------------------------------------------------------
(* The program: main calls fetch_all_closes, then builds the report *)

AnalyzeIdle ==
    /\ closes = NoSeries
    /\ s = NoSeries
    /\ drop_dates = <<>>
    /\ di = 0
    /\ trials = 0
    /\ successes = 0
    /\ last = NoLast
    /\ apc = "idle"

\* The state when fetch_all_closes has submitted one _one(s) per symbol.
Init ==
    /\ symbols \in DistinctLists(Symbols)
    /\ response \in [Range(symbols) -> Responses]
    /\ futures = [sym \in Range(symbols) |-> "running"]
    /\ series = <<>>
    /\ log = <<>>
    /\ closes_df = NoTable
    /\ available = <<>>
    /\ li = 0
    /\ results = <<>>
    /\ results_df = SetIndex(<<>>)
    /\ pc = "collect"
    /\ AnalyzeIdle

Next ==
    \/ \E sym \in Symbols : sym \in DOMAIN futures /\ RunOne(sym)
    \/ \E sym \in Symbols : sym \in DOMAIN futures /\ Collect(sym)
    \/ ReturnConcat
    \/ MainAvailable
    \/ MainLoopStep
    \/ MainBuild

Spec == Init /\ [][Next]_vars

-----------------------------------------------------------------------------
(* analyze_ticker on one column of the table *)

FetchIdle ==
    /\ symbols = <<>>
    /\ response = <<>>
    /\ futures = <<>>
    /\ series = <<>>
    /\ log = <<>>
    /\ closes_df = NoTable
    /\ available = <<>>
    /\ li = 0
    /\ results = <<>>
    /\ results_df = SetIndex(<<>>)
    /\ pc = "idle"

AnalyzeLocalsUnset ==
    /\ s = NoSeries
    /\ drop_dates = <<>>
    /\ di = 0
    /\ trials = 0
    /\ successes = 0
    /\ last = NoLast
    /\ apc = "start"

\* Days 1..EarlyDays and LateDay are the rows of the table; LateDay is thirty
\* days after the last early day.
EarlyDays == 6
LateDay == EarlyDays + 30

ColumnOver(cl) ==
    [name |-> "AAPL",
     obs  |-> [i \in 1..(EarlyDays + 1) |->
                 Obs(Ts(IF i <= EarlyDays THEN i ELSE LateDay), cl[i])]]

\* Columns for the backtest: 100 on the first four days (day 2 possibly
\* missing), 89 or 100 from day 5 on, and a later close, possibly missing.
BacktestColumns ==
    {ColumnOver(cl) : cl \in
        {f \in [1..(EarlyDays + 1) -> {NaN, 88, 89, 90, 100}] :
            /\ \A i \in 1..4 : f[i] = 100 \/ (i = 2 /\ f[i] = NaN)
            /\ \A i \in 5..EarlyDays : f[i] \in {89, 100}
            /\ f[EarlyDays + 1] \in {NaN, 88, 89, 90}}}

InitAnalyze ==
    /\ FetchIdle
    /\ closes \in BacktestColumns
    /\ AnalyzeLocalsUnset

NextAnalyze ==
    \/ AnalyzeStart
    \/ AnalyzeStep
    \/ AnalyzeNextDate
    \/ AnalyzeReturn

SpecAnalyze == InitAnalyze /\ [][NextAnalyze]_vars

\* Columns for the detector alone: every close of days 1..DetectDays is
\* missing or one of three values.
DetectDays == 6

DetectColumns ==
    {[name |-> "AAPL", obs |-> [i \in 1..DetectDays |-> Obs(Ts(i), cl[i])]] :
        cl \in [1..DetectDays -> {NaN, 89, 90, 100}]}

InitDetect ==
    /\ FetchIdle
    /\ closes \in DetectColumns
    /\ AnalyzeLocalsUnset

NextDetect ==
    \/ AnalyzeStart

SpecDetect == InitDetect /\ [][NextDetect]_vars

-----------------------------------------------------------------------------
(* Properties of fetch_all_closes and main *)

\* A fetch succeeds when the provider answers without an HTTP error and with
\* at least one candle.
FetchSucceeds(sym) ==
    response[sym].status = HttpOk /\ Len(response[sym].candles) > 0

Succeeded == {sym \in Range(symbols) : FetchSucceeds(sym)}

\* fetch_all_closes has returned its table.
Returned == pc \in {"main", "loop", "done", "KeyError"}

\* The number of closes the provider gave for sym that are not null.
Observations(sym) ==
    Cardinality({i \in 1..Len(response[sym].candles) :
                    response[sym].candles[i].close # NaN})

IsAscending(q) == \A i \in 1..Len(q) : \A j \in 1..Len(q) : i < j => q[i] < q[j]

\* C1: whenever at least one fetch succeeds, fetch_all_closes returns a table,
\* and the columns of the returned table are exactly the tickers whose fetch
\* succeeded, each once, whatever the order the fetches completed in.
C1_ColumnsAreSucceeded ==
    /\ Returned =>
         /\ Range(closes_df.columns) = Succeeded
         /\ Len(closes_df.columns) = Cardinality(Succeeded)
    /\ pc = "ValueError" => Succeeded = {}

\* Two of three fetches succeeded, one failed, and the successes were collected
\* in the reverse of the input order.
C1_Witness ==
    /\ Returned
    /\ Len(symbols) = 3
    /\ Cardinality(Succeeded) = 2
    /\ \E i \in 1..3 : \E j \in 1..3 :
         /\ i < j
         /\ closes_df.columns = <<symbols[j], symbols[i]>>

\* C2: the returned table has its rows in ascending date order and its columns
\* in the order of the input list, whatever the order the fetches completed in.
C2_OrderIndependent ==
    Returned =>
        /\ IsAscending(closes_df.index)
        /\ closes_df.columns = SelectSeq(symbols, FetchSucceeds)

\* C3: a failing fetch never aborts the batch: when the loop over the futures
\* has ended, every successful fetch is in `series`, every failure has been
\* printed with its ticker, and fetch_all_closes returns a table (it does not
\* raise), also when every fetch failed.
C3_NeverAborts ==
    pc # "collect" =>
        /\ pc # "ValueError"
        /\ \A sym \in Range(symbols) :
             IF FetchSucceeds(sym)
             THEN \E i \in 1..Len(series) : series[i].name = sym
             ELSE \E i \in 1..Len(log) :
                    log[i].kind = "failed" /\ log[i].syms = {sym}

\* The alphabetical order of the ticker symbols of the model.
SymRank(sym) ==
    IF sym = "AAPL" THEN 1 ELSE IF sym = "MSFT" THEN 2 ELSE 3

\* The tickers that get a row: fetched, with at least five observations.
Reportable(sym) == FetchSucceeds(sym) /\ Observations(sym) >= 5

\* C8 as stated: the rows of the final table are in ascending order of the
\* ticker symbol.
C8_SortedBySymbol ==
    pc = "done" =>
        \A i \in 1..Len(results_df.index) : \A j \in 1..Len(results_df.index) :
            i < j => SymRank(results_df.index[i]) < SymRank(results_df.index[j])

\* C8 amended: the rows of the final table are in the order of the input list
\* (the fetched tickers with at least five observations), whatever the order
\* the fetches completed in.
C8_InputOrder ==
    pc = "done" => results_df.index = SelectSeq(symbols, Reportable)

\* Three rows, the input list not in alphabetical order, and the fetches
\* collected in another order than the input's.
C8_Witness ==
    /\ pc = "done"
    /\ Len(results_df.index) = 3
    /\ SymRank(results_df.index[1]) > SymRank(results_df.index[2])
    /\ closes_df.columns # symbols

\* The tickers of the rows the report has (the final table once it is built).
ReportRows ==
    IF pc = "done" THEN results_df.index
    ELSE [i \in 1..Len(results) |-> results[i].ticker]

\* C9: when main's loop has ended, a fetched ticker with fewer than five
\* observations has no row and a "skipping" message naming it has been
\* printed; every fetched ticker with five or more has exactly one row; and
\* no other ticker has a row.
C9_ShortSeriesSkipped ==
    pc \in {"done", "KeyError"} =>
        /\ \A sym \in Succeeded :
             IF Observations(sym) < 5
             THEN /\ \A i \in 1..Len(ReportRows) : ReportRows[i] # sym
                  /\ \E i \in 1..Len(log) :
                       /\ log[i].kind = "skipping"
                       /\ log[i].syms = {sym}
                       /\ log[i].n = Observations(sym)
             ELSE /\ Cardinality({i \in 1..Len(ReportRows) : ReportRows[i] = sym}) = 1
                  /\ \A i \in 1..Len(log) :
                       ~(log[i].kind = "skipping" /\ log[i].syms = {sym})
        /\ Range(ReportRows) \subseteq Succeeded

\* The report is built with one ticker skipped (four observations out of five
\* candles) and another reported.
C9_Witness ==
    /\ pc = "done"
    /\ \E sym \in Succeeded :
         /\ Observations(sym) = 4
         /\ Len(response[sym].candles) = 5
    /\ \E sym \in Succeeded : Observations(sym) >= 5

-----------------------------------------------------------------------------
(* Properties of the drawdown detector *)

\* C4: position i of the series without missing values is a trigger if and
\* only if it has four earlier observations and
\* price(i)/price(i-4) - 1 <= -0.10, that is 10 * (price(i) - price(i-4)) <=
\* -price(i-4); positions are counted in observations, and every qualifying
\* position is a trigger of its own.
C4_TriggerIffTenPercent ==
    apc = "loop" =>
        /\ s.obs = SelectSeq(closes.obs, IsPresent)
        /\ \A i \in 1..Len(s.obs) :
             (\E k \in 1..Len(drop_dates) : drop_dates[k] = s.obs[i].ts)
             <=> /\ i > 4
                 /\ 10 * (s.obs[i].close - s.obs[i - 4].close)
                      <= 0 - s.obs[i - 4].close

-----------------------------------------------------------------------------
(* Properties of analyze_ticker *)

\* The position of the first entry of `map` that minimises Dist, as the claim
\* describes the selection.
FirstNearest(map, Dist(_)) ==
    CHOOSE i \in 1..Len(map) :
        /\ \A j \in 1..Len(map) : Dist(map[i].key) <= Dist(map[j].key)
        /\ \A j \in 1..(i - 1) : Dist(map[j].key) > Dist(map[i].key)

\* The contract the claims describe for the locals l of an iteration: the
\* expiration nearest to trigger date + 30 days, under it the strike nearest
\* to the trigger-date price, each the first of the payload among equals.
NearestExpiration(l) ==
    LET Dist(k) == Abs(k[1] - (DateOf(l.dt) + 30))
    IN  l.put_map[FirstNearest(l.put_map, Dist)]

NearestStrike(l) ==
    LET Dist(k) == Abs(FloatOfKey(k) - 10 * l.price_on_dt)
        sm      == NearestExpiration(l).value
    IN  sm[FirstNearest(sm, Dist)]

\* C5: for a trigger with a non-empty chain a contract is selected, and it is
\* the listed expiration whose distance in days to trigger date + 30 is
\* minimal, and under it the listed strike whose distance to the trigger-date
\* price is minimal, the first in payload order among equals; the implied
\* volatility read is that of the first entry listed under that strike.
C5_NearestContract ==
    /\ apc # "KeyError"
    /\ (apc = "next" /\ last.put_map # <<>>) =>
         /\ last.price_on_dt = At(closes, last.dt)
         /\ last.best_key = NearestExpiration(last).key
         /\ last.strike = FloatOfKey(NearestStrike(last).key)
         /\ last.iv = NearestStrike(last).value[1].volatility

\* Two expirations at the same distance from the target, the later date listed
\* first and selected.
C5_Witness ==
    /\ apc = "next"
    /\ Len(last.put_map) = 2
    /\ Abs(last.put_map[1].key[1] - last.exp_target)
         = Abs(last.put_map[2].key[1] - last.exp_target)
    /\ last.put_map[1].key[1] > last.put_map[2].key[1]
    /\ last.best_key = last.put_map[1].key

\* The trigger whose locals are l has a chain with an expiration, and the
\* implied volatility of the first entry of the selected contract is present
\* and above 0.60.
Qualifies(l) ==
    /\ l.put_map # <<>>
    /\ NearestStrike(l).value[1].volatility # NoneIV
    /\ NearestStrike(l).value[1].volatility > 60

\* C6: one trigger date raises the trial count (by one) if and only if its
\* chain has an expiration and the implied volatility of the first entry of
\* the selected contract is present and above 0.60; otherwise trials and
\* successes are unchanged.
C6_TrialIffHighIV ==
    [][(apc = "loop" /\ apc' # "loop") =>
          IF Qualifies(last')
          THEN trials' = trials + 1
          ELSE trials' = trials /\ successes' = successes]_vars

\* A trigger whose contract has an implied volatility of exactly 0.60 was left
\* uncounted after an earlier trigger was counted.
C6_Witness ==
    /\ apc = "next"
    /\ last.exit = "low_iv"
    /\ last.iv = 60
    /\ trials = 1

\* The observations of s on or after the matched expiration of the locals l.
OnOrAfterExpiration(l) ==
    {o \in Range(s.obs) : DateOf(o.ts) >= l.best_key[1]}

FirstOnOrAfterExpiration(l) ==
    CHOOSE o \in OnOrAfterExpiration(l) :
        \A u \in OnOrAfterExpiration(l) : o.ts <= u.ts

\* C7: for a counted trial, the success count rises (by one) if and only if
\* the series has a date on or after the matched expiration and the close on
\* the first such date is above the matched strike; otherwise it is unchanged.
C7_SuccessIffClosedAbove ==
    [][(apc = "loop" /\ trials' = trials + 1) =>
          IF /\ OnOrAfterExpiration(last') # {}
             /\ 10 * FirstOnOrAfterExpiration(last').close > last'.strike
          THEN successes' = successes + 1
          ELSE successes' = successes]_vars

\* A counted trial whose expiration falls on a date of the series, with the
\* close of that date above the strike: a success.
C7_Witness ==
    /\ apc = "next"
    /\ last.exit = "compared"
    /\ \E o \in Range(s.obs) : DateOf(o.ts) = last.best_key[1]
    /\ 10 * last.price_later > last.strike
    /\ successes = 1

\* The number of trigger dates whose iteration has ended.
Processed == di + (IF apc = "next" THEN 1 ELSE 0)

\* C10: at any point of the loop 0 <= successes <= trials <= number of
\* trigger dates processed; one trigger date raises trials by at most one and
\* successes by at most one, and raises successes only if it raises trials.
C10_CountersBounded ==
    /\ [](0 <= successes /\ successes <= trials /\ trials <= Processed)
    /\ [][/\ trials' - trials \in {0, 1}
          /\ successes' - successes \in {0, 1}
          /\ successes' > successes => trials' > trials]_vars

\* Two triggers processed: both counted, one of them a success.
C10_Witness ==
    /\ apc = "next"
    /\ Processed = 2
    /\ trials = 2
    /\ successes = 1

====
